---- MODULE Spec2Model ----
(***************************************************************************)
(* Model of util_reg_downloader/src/reg_downloader.c: main() parses the    *)
(* command line, loads the register catalog sx1302_reglist.json, installs  *)
(* the signal handlers, configures the HAL, resets and starts the          *)
(* concentrator, reads every register of the catalog, stops the            *)
(* concentrator and resets the board.                                      *)
(*                                                                         *)
(* The HAL functions, the reset script run through system() and the files *)
(* are the environment: every call returns a result drawn from the results *)
(* its interface allows.  `trace` is a history variable: the fallible      *)
(* steps main() has executed so far, in order, each with its argument and  *)
(* its result.  `out` is the part of stdout that makes up the report (the  *)
(* printf of line 537 and the printf of line 541).                         *)
(***************************************************************************)
EXTENDS Integers, Sequences, FiniteSets, TLC

VARIABLES
    argv,           \* the options on the command line, in order
    optind,         \* position of the next option getopt_long returns
    file,           \* content of sx1302_reglist.json
    pc,             \* position of main()
    exit_status,    \* status of the process once pc = "exited"
    arg_i,          \* scratch int of the sscanf("%d") conversions
    arg_i_set,      \* FALSE while arg_i is still uninitialised
    clocksource, freq_offset, txlut, format,
    reglist, reglist_size,
    i, x,           \* loop counter and success counter of the readout loop
    handlers,       \* TRUE once sigaction() installed sig_handler
    exit_sig, quit_sig,
    trace,          \* history: fallible steps executed, with results
    out             \* report lines written to stdout

vars == <<argv, optind, file, pc, exit_status, arg_i, arg_i_set, clocksource,
          freq_offset, txlut, format, reglist, reglist_size, i, x, handlers,
          exit_sig, quit_sig, trace, out>>

(***************************************************************************)
(* Bounds of the model.                                                    *)
(***************************************************************************)
MaxArgs == 2        \* longest command line of SpecArgs
MaxRegs == 3        \* longest catalog of Spec

(***************************************************************************)
(* Program constants.                                                      *)
(***************************************************************************)
EXIT_SUCCESS == 0
EXIT_FAILURE == 1
EXIT_MINUS_ONE == 255           \* "return -1" of main as seen by the parent
DEFAULT_CLK_SRC == 0
RF_CHAIN_DEFAULT == 0            \* uint8_t rf_chain = 0; -c is not modelled
LGW_HAL_SUCCESS == 0
LGW_HAL_ERROR == -1
LGW_REG_SUCCESS == 0
LGW_REG_ERROR == -1
OFFSET_MIN == -65
OFFSET_MAX == 65
MIX_MAX == 15
MIX_DOC_MIN == 5                \* usage(): "--mix <uint> sx125x MIX gain [5..15]"
UINT16_MOD == 65536
INT8_MOD == 256
INT8_HALF == 128
INT_MAX == 2147483647
NULL == "(null)"                \* a NULL char*, and what printf("%s") writes for it

(***************************************************************************)
(* Command-line texts.  A text is the string of an option argument; `num`  *)
(* says whether it starts with a decimal integer and `n` is that integer.  *)
(***************************************************************************)
Txt(s, num, n) == [s |-> s, num |-> num, n |-> n]
Tok(opt, text) == [opt |-> opt, text |-> text]
NoText == Txt("", FALSE, 0)

T_abc == Txt("abc", FALSE, 0)
T_1 == Txt("1", TRUE, 1)
T_2 == Txt("2", TRUE, 2)
T_3 == Txt("3", TRUE, 3)
T_10 == Txt("10", TRUE, 10)
T_16 == Txt("16", TRUE, 16)
T_66 == Txt("66", TRUE, 66)
T_200 == Txt("200", TRUE, 200)
T_JSON == Txt("JSON", FALSE, 0)
T_json == Txt("json", FALSE, 0)

\* sscanf(optarg, "%u", &arg_u): number of conversions and converted value
sscanf_u(text) == [cnt |-> IF text.num /\ text.n >= 0 THEN 1 ELSE 0, val |-> text.n]
\* sscanf(optarg, "%d", &arg_i)
sscanf_d(text) == [cnt |-> IF text.num THEN 1 ELSE 0, val |-> text.n]
\* sscanf(optarg, "%s", arg_s)
sscanf_s(text) == [cnt |-> IF text.s # "" THEN 1 ELSE 0, val |-> text.s]
\* (int8_t) of an int
ToInt8(n) == ((n + INT8_HALF) % INT8_MOD) - INT8_HALF
\* values an uninitialised int may hold when it is read
UninitInts == {0, 99}

(***************************************************************************)
(* Register catalog.  A JSON value is absent, a number or a string.  A     *)
(* JSON number is a double: `h` holds it in halves, so that 3 is h = 6 and *)
(* 3.5 is h = 7.                                                           *)
(***************************************************************************)
JNum(n) == [t |-> "num", h |-> n + n, s |-> ""]
JStr(s) == [t |-> "str", h |-> 0, s |-> s]
JNone == [t |-> "none", h |-> 0, s |-> ""]

Reg(name, address, offset, length, index) ==
    [name |-> name, address |-> address, offset |-> offset, length |-> length,
     index |-> index]

RegA == Reg(JStr("A"), JStr("0x5600"), JNum(0), JNum(1), JNum(0))
RegB == Reg(JStr("B"), JStr("0x5601"), JNum(1), JNum(2), JNum(1))
RegC == Reg(JStr("C"), JStr("0x5602"), JNum(3), JNum(5), JNum(2))
RegNoIndex == Reg(JStr("D"), JStr("0x5603"), JNum(4), JNum(4), JNone)
RegBadName == Reg(JNum(7), JStr("0x5604"), JNum(2), JNum(3), JStr("2"))

RegPool == {RegA, RegB, RegC, RegNoIndex, RegBadName}

\* json_object_get_number: the double (in halves), 0 when the field is absent
\* or no number
json_object_get_number(reg, field) == IF reg[field].t = "num" THEN reg[field].h ELSE 0
\* json_object_get_string: NULL when the field is absent or no string
json_object_get_string(reg, field) == IF reg[field].t = "str" THEN reg[field].s ELSE NULL
\* (int) of a double in halves: the fraction is dropped, towards zero
ToInt(d) == IF d >= 0 THEN d \div 2 ELSE -((-d) \div 2)
\* (uint16_t) of a double in halves
ToU16(d) == ToInt(d) % UINT16_MOD

Injective(s) == \A a, b \in DOMAIN s : s[a] = s[b] => a = b
SeqsUpTo(S, n) == UNION {[1..k -> S] : k \in 0..n}
Catalogs(n) == {s \in SeqsUpTo(RegPool, n) : Injective(s)}

\* the file: unreadable or unparsable, parsable without the array, or a catalog
FileBad == [parsed |-> FALSE, has_array |-> FALSE, regs |-> <<>>]
FileNoArray == [parsed |-> TRUE, has_array |-> FALSE, regs |-> <<>>]
FileOk(regs) == [parsed |-> TRUE, has_array |-> TRUE, regs |-> regs]

\* json_parse_file_with_comments: FALSE stands for the NULL root
json_parse_file_with_comments(f) == f.parsed
\* variant: the array is not tested for NULL
json_object_get_array_Unchecked(f) == f.parsed

\* json_object_get_array(json_obj, "sx1302_reglist"): FALSE stands for NULL
json_object_get_array(f) == f.parsed /\ f.has_array

(***************************************************************************)
(* Results the environment may return.                                     *)
(***************************************************************************)
HalResults == {LGW_HAL_SUCCESS, LGW_HAL_ERROR}
SystemResults == {0, 256}
Values == {10, 20}
ReadResults == {[status |-> LGW_REG_ERROR, value |-> 0]}
               \cup {[status |-> LGW_REG_SUCCESS, value |-> v] : v \in Values}

Step(op, arg, ret, val) == [op |-> op, arg |-> arg, ret |-> ret, val |-> val]

(***************************************************************************)
(* Command lines and initial states.                                       *)
(***************************************************************************)
Tokens ==
    {Tok("h", NoText), Tok("?", NoText),
     Tok("k", T_1), Tok("k", T_2), Tok("k", T_abc),
     Tok("o", T_10), Tok("o", T_66), Tok("o", T_abc),
     Tok("p", T_10), Tok("p", T_abc),
     Tok("mix", T_3), Tok("mix", T_16),
     Tok("format", T_JSON), Tok("format", T_json)}

\* one option of every kind; only -p passes
TokensFew ==
    {Tok("h", NoText), Tok("?", NoText), Tok("k", T_2), Tok("o", T_66),
     Tok("p", T_200), Tok("mix", T_16), Tok("format", T_json)}

TXLUT_EMPTY == [size |-> 0, rf_power |-> 0, mix_gain |-> 0]

InitLocals ==
    /\ optind = 1
    /\ pc = "getopt"
    /\ exit_status = EXIT_SUCCESS
    /\ arg_i = 0
    /\ arg_i_set = FALSE
    /\ clocksource = DEFAULT_CLK_SRC
    /\ freq_offset = 0
    /\ txlut = TXLUT_EMPTY
    /\ format = "CSV"
    /\ reglist = <<>>
    /\ reglist_size = 0
    /\ i = 0
    /\ x = 0
    /\ handlers = FALSE
    /\ exit_sig = 0
    /\ quit_sig = 0
    /\ trace = <<>>
    /\ out = <<>>

FilesFew == {FileBad, FileOk(<<>>), FileOk(<<RegA>>)}
FilesAll == {FileBad, FileNoArray} \cup {FileOk(c) : c \in Catalogs(MaxRegs)}

\* every catalog up to MaxRegs entries with the plain command line, and one
\* option of every kind with the short catalogs
Init ==
    /\ \/ argv = <<>> /\ file \in FilesAll
       \/ argv \in {<<t>> : t \in TokensFew} /\ file \in FilesFew
    /\ InitLocals

\* every command line up to MaxArgs options, short catalogs
InitArgs ==
    /\ argv \in SeqsUpTo(Tokens, MaxArgs)
    /\ file \in FilesFew
    /\ InitLocals

(***************************************************************************)
(* Option parsing: the getopt_long loop, one action per case of the switch.*)
(* The options not modelled (-r -l -m -d -q -t -c -f -s -b -n -z, --pa     *)
(* --dac --dig --pwid --loop, -i -j --nhdr) have the shape of -k or -p.    *)
(***************************************************************************)
envVars == <<argv, file>>
sigVars == <<handlers, exit_sig, quit_sig>>
argVars == <<arg_i, arg_i_set, clocksource, freq_offset, txlut, format>>
catVars == <<reglist, reglist_size>>
loopVars == <<i, x, out>>

\* return <code> from main, or exit(<code>)
Return(code) == pc' = "exited" /\ exit_status' = code
Goto(label) == pc' = label /\ exit_status' = exit_status

\* getopt_long returned the option argv[optind]
Getopt(opt) ==
    /\ pc = "getopt"
    /\ optind <= Len(argv)
    /\ argv[optind].opt = opt
    /\ optind' = optind + 1

\* an option was refused: main returns <code> before anything else is done
Refuse(code) ==
    /\ Return(code)
    /\ trace' = Append(trace, Step("getopt", 0, -1, 0))

Accept == Goto("getopt") /\ trace' = trace

OptH ==
    /\ Getopt("h")
    /\ Refuse(EXIT_MINUS_ONE)
    /\ UNCHANGED <<envVars, sigVars, argVars, catVars, loopVars>>

\* -k: i != 1 || arg_u > 1
ClockSourceRefused(r) == r.cnt # 1 \/ r.val > 1

OptK ==
    /\ Getopt("k")
    /\ LET r == sscanf_u(argv[optind].text) IN
         IF ClockSourceRefused(r)
         THEN Refuse(EXIT_FAILURE) /\ clocksource' = clocksource
         ELSE Accept /\ clocksource' = r.val
    /\ UNCHANGED <<envVars, sigVars, arg_i, arg_i_set, freq_offset, txlut, format,
                   catVars, loopVars>>

\* -o: arg_i is tested whether or not sscanf converted anything; when it did
\* not, arg_i holds what an earlier -p left in it, or is uninitialised
OptO ==
    /\ Getopt("o")
    /\ LET r == sscanf_d(argv[optind].text) IN
         /\ arg_i' = IF r.cnt = 1 THEN r.val ELSE arg_i
         /\ arg_i_set' = (arg_i_set \/ r.cnt = 1)
         /\ \E v \in (IF r.cnt = 1 THEN {r.val}
                      ELSE IF arg_i_set THEN {arg_i} ELSE UninitInts) :
              IF (v < OFFSET_MIN) \/ (v > OFFSET_MAX)
              THEN Refuse(EXIT_FAILURE) /\ freq_offset' = freq_offset
              ELSE Accept /\ freq_offset' = ToInt8(v)
    /\ UNCHANGED <<envVars, sigVars, clocksource, txlut, format, catVars, loopVars>>

OptP ==
    /\ Getopt("p")
    /\ LET r == sscanf_d(argv[optind].text) IN
         IF r.cnt # 1
         THEN Refuse(EXIT_FAILURE) /\ UNCHANGED <<arg_i, arg_i_set, txlut>>
         ELSE /\ Accept
              /\ arg_i' = r.val
              /\ arg_i_set' = TRUE
              /\ txlut' = [txlut EXCEPT !.size = 1, !.rf_power = ToInt8(r.val)]
    /\ UNCHANGED <<envVars, sigVars, clocksource, freq_offset, format, catVars,
                   loopVars>>

\* --mix: i != 1 || arg_u > 15
OptMix ==
    /\ Getopt("mix")
    /\ LET r == sscanf_u(argv[optind].text) IN
         IF (r.cnt # 1) \/ (r.val > MIX_MAX)
         THEN Refuse(EXIT_FAILURE) /\ txlut' = txlut
         ELSE Accept /\ txlut' = [txlut EXCEPT !.size = 1, !.mix_gain = r.val]
    /\ UNCHANGED <<envVars, sigVars, arg_i, arg_i_set, clocksource, freq_offset,
                   format, catVars, loopVars>>

\* --format: strcmp with "CSV" and "JSON"
OptFormat ==
    /\ Getopt("format")
    /\ LET r == sscanf_s(argv[optind].text) IN
         IF (r.cnt # 1) \/ (r.val # "CSV" /\ r.val # "JSON")
         THEN Refuse(EXIT_FAILURE) /\ format' = format
         ELSE Accept /\ format' = r.val
    /\ UNCHANGED <<envVars, sigVars, arg_i, arg_i_set, clocksource, freq_offset,
                   txlut, catVars, loopVars>>

\* an option getopt_long does not know
OptDefault ==
    /\ Getopt("?")
    /\ Refuse(EXIT_MINUS_ONE)
    /\ UNCHANGED <<envVars, sigVars, argVars, catVars, loopVars>>

\* getopt_long returned -1
GetoptEnd ==
    /\ pc = "getopt"
    /\ optind > Len(argv)
    /\ Goto("json_parse")
    /\ trace' = Append(trace, Step("getopt", 0, 0, 0))
    /\ UNCHANGED <<optind, envVars, sigVars, argVars, catVars, loopVars>>

(***************************************************************************)
(* Catalog loading and signal handlers.                                    *)
(***************************************************************************)
LoadCatalog ==
    /\ pc = "json_parse"
    /\ IF ~json_parse_file_with_comments(file)
       THEN /\ Return(EXIT_FAILURE)
            /\ trace' = Append(trace, Step("json_parse_file", 0, -1, 0))
            /\ UNCHANGED catVars
       ELSE IF ~json_object_get_array(file)
       THEN /\ Return(EXIT_FAILURE)
            /\ trace' = Append(trace, Step("json_parse_file", 0, -1, 0))
            /\ UNCHANGED catVars
       ELSE /\ Goto("sigaction")
            /\ trace' = Append(trace, Step("json_parse_file", 0, 0, 0))
            /\ reglist' = file.regs
            /\ reglist_size' = Len(file.regs)
    /\ UNCHANGED <<optind, envVars, sigVars, argVars, loopVars>>

InstallHandlers ==
    /\ pc = "sigaction"
    /\ handlers' = TRUE
    /\ Goto("lgw_board_setconf")
    /\ UNCHANGED <<optind, envVars, exit_sig, quit_sig, argVars, catVars, loopVars,
                   trace>>

\* a signal is delivered while sig_handler is installed
sig_handler ==
    /\ handlers
    /\ pc # "exited"
    /\ \E sigio \in {"SIGQUIT", "SIGINT", "SIGTERM"} :
         IF sigio = "SIGQUIT"
         THEN quit_sig' = 1 /\ exit_sig' = exit_sig
         ELSE exit_sig' = 1 /\ quit_sig' = quit_sig
    /\ UNCHANGED <<optind, envVars, pc, exit_status, handlers, argVars, catVars,
                   loopVars, trace>>

(***************************************************************************)
(* HAL configuration.                                                      *)
(***************************************************************************)
\* variant: the result of a configuration call is not looked at
ConfigFailed_Never(r) == FALSE

\* the test after every configuration call: != LGW_HAL_SUCCESS
ConfigFailed(r) == r # LGW_HAL_SUCCESS

\* call <op>(<arg>); return EXIT_FAILURE when it failed, else go on to <next>
ConfigCall(op, arg, next) ==
    /\ \E r \in HalResults :
         /\ trace' = Append(trace, Step(op, arg, r, 0))
         /\ IF ConfigFailed(r) THEN Return(EXIT_FAILURE) ELSE Goto(next)
    /\ UNCHANGED <<optind, envVars, sigVars, argVars, catVars, loopVars>>

BoardSetconf ==
    /\ pc = "lgw_board_setconf"
    /\ ConfigCall("lgw_board_setconf", clocksource, "lgw_rxrf_setconf_0")

\* variant: the chain number of the block copied for chain 1 is used for chain 0
RxrfSetconf0_WrongChain ==
    /\ pc = "lgw_rxrf_setconf_0"
    /\ ConfigCall("lgw_rxrf_setconf", 1, "lgw_rxrf_setconf_1")

RxrfSetconf0 ==
    /\ pc = "lgw_rxrf_setconf_0"
    /\ ConfigCall("lgw_rxrf_setconf", 0, "lgw_rxrf_setconf_1")

RxrfSetconf1 ==
    /\ pc = "lgw_rxrf_setconf_1"
    /\ ConfigCall("lgw_rxrf_setconf", 1, "lgw_txgain_setconf")

\* if (txlut.size > 0)
TxGainWanted == txlut.size > 0

TxgainSetconf ==
    /\ pc = "lgw_txgain_setconf"
    /\ TxGainWanted
    /\ ConfigCall("lgw_txgain_setconf", RF_CHAIN_DEFAULT, "reset_start")

TxgainSkip ==
    /\ pc = "lgw_txgain_setconf"
    /\ ~TxGainWanted
    /\ Goto("reset_start")
    /\ UNCHANGED <<optind, envVars, sigVars, argVars, catVars, loopVars, trace>>

(***************************************************************************)
(* The session: reset, start, readout loop, stop, reset.                   *)
(***************************************************************************)
\* system("./reset_lgw.sh start") != 0
ResetStart ==
    /\ pc = "reset_start"
    /\ \E r \in SystemResults :
         /\ trace' = Append(trace, Step("reset_start", 0, r, 0))
         /\ IF r # 0 THEN Return(EXIT_FAILURE) ELSE Goto("lgw_start")
    /\ UNCHANGED <<optind, envVars, sigVars, argVars, catVars, loopVars>>

\* variant: the result of lgw_start is not tested
LgwStart_IgnoreFailure ==
    /\ pc = "lgw_start"
    /\ \E r \in HalResults :
         /\ trace' = Append(trace, Step("lgw_start", 0, r, 0))
         /\ Goto("loop") /\ x' = 0 /\ i' = 0
    /\ UNCHANGED <<optind, envVars, sigVars, argVars, catVars, out>>

\* x = lgw_start(); on success the for statement sets i = 0, x = 0
LgwStart ==
    /\ pc = "lgw_start"
    /\ \E r \in HalResults :
         /\ trace' = Append(trace, Step("lgw_start", 0, r, 0))
         /\ IF r # 0
            THEN Return(EXIT_FAILURE) /\ x' = r /\ i' = i
            ELSE Goto("loop") /\ x' = 0 /\ i' = 0
    /\ UNCHANGED <<optind, envVars, sigVars, argVars, catVars, out>>

\* json_array_get_object(reglist, i)
json_array_get_object(list, n) == list[n + 1]

\* variant: the position in the catalog is used as the register number
RegisterId_Position(list, n) == n

\* the register lgw_reg_r is asked for in iteration n
RegisterId(list, n) == ToU16(json_object_get_number(json_array_get_object(list, n), "index"))

\* variant: offset and length are passed to printf in the wrong order
DetailLine_Swapped(reg, value) ==
    [kind |-> "detail",
     name |-> json_object_get_string(reg, "name"),
     value |-> value,
     address |-> json_object_get_string(reg, "address"),
     offset |-> ToInt(json_object_get_number(reg, "length")),
     length |-> ToInt(json_object_get_number(reg, "offset"))]

\* printf("%s, %i, %s, %i, %i\n", name, value, address, int_offset, int_length)
DetailLine(reg, value) ==
    [kind |-> "detail",
     name |-> json_object_get_string(reg, "name"),
     value |-> value,
     address |-> json_object_get_string(reg, "address"),
     offset |-> ToInt(json_object_get_number(reg, "offset")),
     length |-> ToInt(json_object_get_number(reg, "length"))]

\* printf("\n%i/%i Registers read\n", x, i)
SummaryLine(succeeded, attempted) ==
    [kind |-> "summary", succeeded |-> succeeded, attempted |-> attempted]

\* i++ of the for statement
NextIndex(n) == n + 1

\* one iteration of the readout loop
RegRead ==
    /\ pc = "loop"
    /\ i < reglist_size
    /\ \E r \in ReadResults :
         /\ trace' = Append(trace, Step("lgw_reg_r", RegisterId(reglist, i), r.status, r.value))
         /\ IF r.status = LGW_REG_SUCCESS
            THEN /\ out' = Append(out, DetailLine(json_array_get_object(reglist, i), r.value))
                 /\ x' = x + 1
            ELSE UNCHANGED <<out, x>>
    /\ i' = NextIndex(i)
    /\ Goto("loop")
    /\ UNCHANGED <<optind, envVars, sigVars, argVars, catVars>>

\* variant: a readout without a single success gives up before lgw_stop
LoopEnd_GiveUp ==
    /\ pc = "loop"
    /\ ~(i < reglist_size)
    /\ out' = Append(out, SummaryLine(x, i))
    /\ IF x = 0 /\ i > 0 THEN Return(EXIT_FAILURE) ELSE Goto("lgw_stop")
    /\ UNCHANGED <<optind, envVars, sigVars, argVars, catVars, i, x, trace>>

\* the loop ends and the summary is printed
LoopEnd ==
    /\ pc = "loop"
    /\ ~(i < reglist_size)
    /\ out' = Append(out, SummaryLine(x, i))
    /\ Goto("lgw_stop")
    /\ UNCHANGED <<optind, envVars, sigVars, argVars, catVars, i, x, trace>>

\* variant: the board is still reset after a failed lgw_stop
LgwStop_ResetAnyway ==
    /\ pc = "lgw_stop"
    /\ \E r \in HalResults :
         /\ trace' = Append(trace, Step("lgw_stop", 0, r, 0))
         /\ x' = r
         /\ Goto("reset_stop")
    /\ UNCHANGED <<optind, envVars, sigVars, argVars, catVars, i, out>>

\* x = lgw_stop()
LgwStop ==
    /\ pc = "lgw_stop"
    /\ \E r \in HalResults :
         /\ trace' = Append(trace, Step("lgw_stop", 0, r, 0))
         /\ x' = r
         /\ IF r # 0 THEN Return(EXIT_FAILURE) ELSE Goto("reset_stop")
    /\ UNCHANGED <<optind, envVars, sigVars, argVars, catVars, i, out>>

\* variant: the status reports whether every register was read
ResetStop_CountStatus ==
    /\ pc = "reset_stop"
    /\ \E r \in SystemResults :
         /\ trace' = Append(trace, Step("reset_stop", 0, r, 0))
         /\ IF r # 0 \/ x # i THEN Return(EXIT_FAILURE) ELSE Return(EXIT_SUCCESS)
    /\ UNCHANGED <<optind, envVars, sigVars, argVars, catVars, loopVars>>

\* system("./reset_lgw.sh stop") != 0, then return 0
ResetStop ==
    /\ pc = "reset_stop"
    /\ \E r \in SystemResults :
         /\ trace' = Append(trace, Step("reset_stop", 0, r, 0))
         /\ IF r # 0 THEN Return(EXIT_FAILURE) ELSE Return(EXIT_SUCCESS)
    /\ UNCHANGED <<optind, envVars, sigVars, argVars, catVars, loopVars>>

Next ==
    \/ OptH \/ OptK \/ OptO \/ OptP \/ OptMix \/ OptFormat \/ OptDefault
    \/ GetoptEnd
    \/ LoadCatalog
    \/ InstallHandlers
    \/ sig_handler
    \/ BoardSetconf \/ RxrfSetconf0 \/ RxrfSetconf1 \/ TxgainSetconf \/ TxgainSkip
    \/ ResetStart \/ LgwStart \/ RegRead \/ LoopEnd \/ LgwStop \/ ResetStop

Spec == Init /\ [][Next]_vars
SpecArgs == InitArgs /\ [][Next]_vars

(***************************************************************************)
(* Properties.  They are stated over the history `trace`.                  *)
(***************************************************************************)
IsPrefix(a, b) == Len(a) <= Len(b) /\ \A k \in 1..Len(a) : a[k] = b[k]
Positions(op) == {k \in 1..Len(trace) : trace[k].op = op}
Called(op) == Positions(op) # {}
Succeeded(op) == \E k \in Positions(op) : trace[k].ret = 0
Last == trace[Len(trace)]

ConfigOps == {"lgw_board_setconf", "lgw_rxrf_setconf", "lgw_txgain_setconf"}
LifecycleOps == {"reset_start", "lgw_start", "lgw_stop", "reset_stop"}
HardwareOps == ConfigOps \cup LifecycleOps \cup {"lgw_reg_r"}

\* the configuration calls made so far, each as <<entry point, RF chain>>
ConfigCalls ==
    LET cfg == SelectSeq(trace, LAMBDA s : s.op \in ConfigOps)
    IN [k \in 1..Len(cfg) |->
          <<cfg[k].op, IF cfg[k].op = "lgw_rxrf_setconf" THEN cfg[k].arg ELSE 0>>]

ConfigOrder ==
    <<(<<"lgw_board_setconf", 0>>), (<<"lgw_rxrf_setconf", 0>>),
      (<<"lgw_rxrf_setconf", 1>>), (<<"lgw_txgain_setconf", 0>>)>>

\* C1: the configuration entry points are called in the order board, RF chain
\* 0, RF chain 1, TX gain table, each at most once; the TX gain call is
\* optional; the reset "start" comes after the three mandatory calls and no
\* configuration call follows the reset "start" or lgw_start.
C1_ConfigOrder ==
    /\ IsPrefix(ConfigCalls, ConfigOrder)
    /\ Called("reset_start") => IsPrefix(SubSeq(ConfigOrder, 1, 3), ConfigCalls)
    /\ \A j, k \in 1..Len(trace) :
         (j < k /\ trace[j].op \in {"reset_start", "lgw_start"})
            => trace[k].op \notin ConfigOps

\* a run that made all four configuration calls and went on to the reset
C1_Witness ==
    /\ ConfigCalls = ConfigOrder
    /\ Succeeded("reset_start")

\* C2: a configuration call that fails is the last step of the run: main
\* returns a non-zero status at once, without retry and without any later
\* configuration call, reset, lgw_start, register read or lgw_stop.
C2_ConfigFailureAborts ==
    \A k \in 1..Len(trace) :
      (trace[k].op \in ConfigOps /\ trace[k].ret # LGW_HAL_SUCCESS)
         => /\ k = Len(trace)
            /\ pc = "exited"
            /\ exit_status # 0

\* the TX gain table call failed after three successful configuration calls
C2_Witness ==
    /\ Len(ConfigCalls) = 4
    /\ Last.op = "lgw_txgain_setconf"
    /\ Last.ret = LGW_HAL_ERROR
    /\ pc = "exited"

\* the lifecycle calls made so far
LifecycleCalls ==
    LET lc == SelectSeq(trace, LAMBDA s : s.op \in LifecycleOps)
    IN [k \in 1..Len(lc) |-> lc[k].op]

LifecycleOrder == <<"reset_start", "lgw_start", "lgw_stop", "reset_stop">>

\* no step other than a register read has failed
NoFatalFailure == \A k \in 1..Len(trace) : trace[k].op # "lgw_reg_r" => trace[k].ret = 0

\* C3: the lifecycle calls are made in the order reset "start", lgw_start,
\* lgw_stop, reset "stop"; a run without a fatal failure makes each of them
\* exactly once; every register read comes after a successful lgw_start and
\* before lgw_stop; a lifecycle call that fails is the last step of the run,
\* which ends with a non-zero status.
C3_SessionOrder ==
    /\ IsPrefix(LifecycleCalls, LifecycleOrder)
    /\ (pc = "exited" /\ NoFatalFailure) => LifecycleCalls = LifecycleOrder
    /\ \A k \in Positions("lgw_reg_r") :
         /\ \E j \in 1..(k - 1) : trace[j].op = "lgw_start" /\ trace[j].ret = 0
         /\ \A j \in 1..k : trace[j].op # "lgw_stop"
    /\ \A k \in 1..Len(trace) :
         (trace[k].op \in LifecycleOps /\ trace[k].ret # 0)
            => (k = Len(trace) /\ pc = "exited" /\ exit_status # 0)

\* a complete run that read at least one register
C3_Witness ==
    /\ pc = "exited"
    /\ NoFatalFailure
    /\ Positions("lgw_reg_r") # {}
    /\ Last.op = "reset_stop"

\* the register reads made so far
Reads == SelectSeq(trace, LAMBDA s : s.op = "lgw_reg_r")

\* the catalog in the file, empty when the file has none
Catalog == file.regs

\* the readout loop has been left
LoopDone == pc \in {"lgw_stop", "reset_stop"} \/ Called("lgw_stop")

\* a JSON number that is a whole number n with lo <= n <= hi
Whole(j, lo, hi) == j.t = "num" /\ j.h % 2 = 0 /\ lo <= j.h \div 2 /\ j.h \div 2 <= hi

\* C4: after a successful lgw_start the loop reads one register per catalog
\* entry, in catalog order, with the index of the entry; a failed read leaves
\* the run in the loop, and the loop is left only after N reads (none for an
\* empty catalog).
C4_OneReadPerEntry ==
    /\ Len(Reads) <= Len(Catalog)
    /\ \A k \in 1..Len(Reads) :
         Whole(Catalog[k].index, 0, UINT16_MOD - 1)
            => Reads[k].arg = Catalog[k].index.h \div 2
    /\ Succeeded("lgw_start") => (pc = "loop" \/ LoopDone)
    /\ pc = "loop" => Len(Reads) = i
    /\ LoopDone => Len(Reads) = Len(Catalog)
    /\ (Len(trace) > 0 /\ Last.op = "lgw_reg_r") => pc \in {"loop", "lgw_stop"}

\* three entries, the first read failed and the other two were still made
C4_Witness ==
    /\ pc = "lgw_stop"
    /\ Len(Catalog) = 3
    /\ Len(Reads) = 3
    /\ Reads[1].ret = LGW_REG_ERROR
    /\ Reads[3].ret = LGW_REG_SUCCESS

\* the catalog positions whose read succeeded, in order
OkPositions ==
    SelectSeq([k \in 1..Len(Reads) |-> k], LAMBDA k : Reads[k].ret = LGW_REG_SUCCESS)

DetailLines == SelectSeq(out, LAMBDA l : l.kind = "detail")

\* an entry with the fields of a RegisterDescriptor
WellFormed(reg) ==
    /\ reg.name.t = "str"
    /\ reg.address.t = "str"
    /\ Whole(reg.offset, 0, INT_MAX)
    /\ Whole(reg.length, 0, INT_MAX)

\* C5: the report has one detail line per successful read, in catalog order,
\* with the value the HAL returned and the name, address, offset and length
\* of the entry, and no line for a failed read; once the loop is left they
\* are followed by one summary line "<succeeded>/<attempted>" with
\* succeeded = number of detail lines and attempted = catalog size.
C5_Report ==
    /\ Len(DetailLines) = Len(OkPositions)
    /\ \A j \in 1..Len(OkPositions) :
         LET k == OkPositions[j]
             reg == Catalog[k]
             line == DetailLines[j]
         IN /\ line.value = Reads[k].val
            /\ WellFormed(reg) =>
                 /\ line.name = reg.name.s
                 /\ line.address = reg.address.s
                 /\ line.offset + line.offset = reg.offset.h
                 /\ line.length + line.length = reg.length.h
    /\ IF LoopDone
       THEN out = DetailLines \o <<SummaryLine(Len(DetailLines), Len(Catalog))>>
       ELSE out = DetailLines

\* the catalog A, B, C with reads 10, failure, 20 gives two lines and "2/3"
C5_Witness ==
    /\ Catalog = <<RegA, RegB, RegC>>
    /\ out = <<[kind |-> "detail", name |-> "A", value |-> 10,
                address |-> "0x5600", offset |-> 0, length |-> 1],
               [kind |-> "detail", name |-> "C", value |-> 20,
                address |-> "0x5602", offset |-> 3, length |-> 5],
               [kind |-> "summary", succeeded |-> 2, attempted |-> 3]>>

\* C6: lgw_stop is called at most once, only after a successful lgw_start,
\* and a run in which lgw_start succeeded does not end without it, whatever
\* the register reads returned.
C6_StopAfterStart ==
    /\ Cardinality(Positions("lgw_stop")) <= 1
    /\ Called("lgw_stop") => Succeeded("lgw_start")
    /\ (pc = "exited" /\ Succeeded("lgw_start")) => Called("lgw_stop")

\* a finished run in which every one of three reads failed and lgw_stop ran
C6_Witness ==
    /\ pc = "exited"
    /\ Len(Reads) = 3
    /\ \A k \in 1..Len(Reads) : Reads[k].ret = LGW_REG_ERROR
    /\ Called("lgw_stop")

\* every step main() has to take was taken
RunComplete ==
    /\ \A op \in {"getopt", "json_parse_file", "lgw_board_setconf"} \cup LifecycleOps :
         Called(op)
    /\ ConfigCalls \in {SubSeq(ConfigOrder, 1, 3), ConfigOrder}

\* C7: the exit status is 0 exactly when parsing, loading, every
\* configuration call and the four lifecycle calls were all made and
\* succeeded; failed register reads do not change it.
C7_ExitStatus ==
    pc = "exited" =>
      /\ exit_status = 0 <=> NoFatalFailure
      /\ exit_status = 0 => RunComplete

\* a run that exits 0 although both of its register reads failed
C7_Witness ==
    /\ pc = "exited"
    /\ exit_status = 0
    /\ Len(Reads) = 2
    /\ \A k \in 1..Len(Reads) : Reads[k].ret = LGW_REG_ERROR

\* what usage() and the messages of main() allow as the argument of an option
ValidOption(tok) ==
    CASE tok.opt = "h" -> TRUE
      [] tok.opt = "k" -> tok.text.num /\ tok.text.n \in 0..1
      [] tok.opt = "o" -> tok.text.num /\ tok.text.n \in OFFSET_MIN..OFFSET_MAX
      [] tok.opt = "p" -> tok.text.num
      [] tok.opt = "mix" -> tok.text.num /\ tok.text.n \in MIX_DOC_MIN..MIX_MAX
      [] tok.opt = "format" -> tok.text.s \in {"CSV", "JSON"}
      [] OTHER -> FALSE

InvalidArgument == \E k \in 1..Len(argv) : ~ValidOption(argv[k])

\* C8: a command line with a malformed or out-of-range value ends the run
\* with a non-zero status before the catalog is loaded and before any HAL or
\* reset call.
C8_InvalidArgumentAborts ==
    InvalidArgument =>
      /\ pc \in {"getopt", "exited"}
      /\ pc = "exited" => exit_status # 0
      /\ \A k \in 1..Len(trace) : trace[k].op = "getopt"

CatalogUnusable == ~file.parsed \/ ~file.has_array

\* C9: when the catalog file cannot be parsed or has no register array, the
\* run ends with a non-zero status at the loading step, and no HAL
\* configuration call, reset command, lgw_start or register read is made.
C9_CatalogFailureAborts ==
    CatalogUnusable =>
      /\ pc \in {"getopt", "json_parse", "exited"}
      /\ pc = "exited" => exit_status # 0
      /\ \A k \in 1..Len(trace) : trace[k].op \notin HardwareOps

\* a parsable file without the array made the loading step fail
C9_Witness ==
    /\ file = FileNoArray
    /\ pc = "exited"
    /\ Last.op = "json_parse_file"
    /\ Last.ret # 0

\* an entry without a string name or without a numeric index
Malformed(reg) == reg.name.t # "str" \/ reg.index.t # "num"

MalformedCatalog == ~CatalogUnusable /\ \E k \in 1..Len(Catalog) : Malformed(Catalog[k])

\* C10: a catalog with an entry whose name or index is missing or of the
\* wrong type is refused: the run ends with a non-zero status and no register
\* read is made.
C10_MalformedCatalogRefused ==
    MalformedCatalog =>
      /\ ~Called("lgw_reg_r")
      /\ pc = "exited" => exit_status # 0

\* sig_handler has run for SIGQUIT, SIGINT or SIGTERM
SignalReceived == exit_sig = 1 \/ quit_sig = 1

\* C11: a termination signal received while the handlers are installed does
\* not keep a started session from being shut down: a run that started the
\* HAL and received a signal attempts lgw_stop and the reset "stop" before
\* the process exits.
C11_SignalStillStops ==
    (pc = "exited" /\ SignalReceived /\ Succeeded("lgw_start"))
       => (Called("lgw_stop") /\ Called("reset_stop"))

\* the lines of the delimited-text report: printf of line 537 and of line 541
DelimitedKinds == {"detail", "summary"}

\* C12: when --format selects JSON the report is the structured form (a
\* container of one object per successful reading plus the counts attempted
\* and succeeded) and not the delimited-text lines.
C12_JsonReport ==
    format = "JSON" => \A k \in 1..Len(out) : out[k].kind \notin DelimitedKinds

Failed(op) == \E k \in Positions(op) : trace[k].ret # 0

\* C13: the reset "stop" is run at most once and only after lgw_stop returned
\* success; a run whose reset "start" succeeded and whose lgw_start or
\* lgw_stop failed ends without the reset "stop", and a run whose lgw_start
\* failed ends without lgw_stop.
C13_ResetStopOnlyAfterStop ==
    /\ Cardinality(Positions("reset_stop")) <= 1
    /\ \A k \in Positions("reset_stop") :
         \E j \in 1..(k - 1) : trace[j].op = "lgw_stop" /\ trace[j].ret = 0
    /\ (Succeeded("reset_start") /\ (Failed("lgw_start") \/ Failed("lgw_stop")))
          => (pc = "exited" /\ ~Called("reset_stop"))
    /\ Failed("lgw_start") => (pc = "exited" /\ ~Called("lgw_stop"))

\* the HAL was started, two registers were read and lgw_stop failed: the run
\* is over and the board was not reset
C13_Witness ==
    /\ pc = "exited"
    /\ Succeeded("reset_start")
    /\ Succeeded("lgw_start")
    /\ Len(Reads) = 2
    /\ Failed("lgw_stop")
    /\ ~Called("reset_stop")

====
